---- MODULE Spec2Model ----
(***************************************************************************)
(* Model of auto_invest.py (class AutoInvestor): one run of the automated  *)
(* investment process against a brokerage client, and the allocation       *)
(* function called directly on arbitrary inputs.                           *)
(*                                                                         *)
(* Money is modelled in whole currency units and the arithmetic of         *)
(* calculate_allocation is exact rational arithmetic (the source uses      *)
(* binary floats); the weights used are multiples of 50, for which         *)
(* pct / 100 is exact in binary floating point as well.                    *)
(* A Python dict is a function whose DOMAIN is its key set, together with  *)
(* a sequence of keys where the iteration order matters.                   *)
(***************************************************************************)
EXTENDS Integers, Sequences, FiniteSets, TLC

\* ------------------------------------------------------------------ bounds
MaxCashSteps == 6
MaxCalls == 3

\* ------------------------------------------------------- program constants
DefaultMinInvestment == 100
PercentBase == 100
HttpCreated == 201

\* -------------------------------------------------------------- input sets
Symbols == {"VTI", "VXUS"}

\* iteration orders of config['allocation']
KeyOrders == {<<>>, <<"VTI">>, <<"VTI", "VXUS">>, <<"VXUS", "VTI">>}

WeightValues == {0, 50, 100, 200}

Range(seq) == {seq[i] : i \in 1..Len(seq)}

\* the 'allocation' section of the config file: ordered keys and weights
AllocationConfigs ==
    UNION {{[keys |-> k, w |-> f] : f \in [Range(k) -> WeightValues]} :
              k \in KeyOrders}

\* cash balances the brokerage may report (one negative: a margin account)
CashValues == {25 * k : k \in (-1)..MaxCashSteps}

\* explicit min_investment_amount settings of the config
MinInvestmentValues == {0, 50}

\* a quote as returned by the brokerage; 0 stands for an absent, null or
\* zero field (all are falsy in the source)
QuoteValues ==
    { [lastPrice |-> 100, bidPrice |-> 0,  askPrice |-> 0],
      [lastPrice |-> 0,   bidPrice |-> 40, askPrice |-> 60],
      [lastPrice |-> 0,   bidPrice |-> 0,  askPrice |-> 60],
      [lastPrice |-> -100, bidPrice |-> 0, askPrice |-> 0] }

\* a dict with keys ks and values in vs
Dicts(ks, vs) == UNION {[d -> vs] : d \in SUBSET ks}

EmptyDict == [s \in {} |-> 0]

\* responses of client.get_quotes: it raises, or returns quotes for some
\* of the symbols
QuoteResponses(symbols) ==
    {[raises |-> TRUE, quotes |-> EmptyDict]} \cup
    {[raises |-> FALSE, quotes |-> q] : q \in Dicts(symbols, QuoteValues)}

\* responses of client.get_account: it raises (or is malformed), has no
\* cashBalance field, or reports a cash balance
AccountResponses ==
    {[raises |-> TRUE, hasCash |-> FALSE, cashBalance |-> 0],
     [raises |-> FALSE, hasCash |-> FALSE, cashBalance |-> 0]} \cup
    {[raises |-> FALSE, hasCash |-> TRUE, cashBalance |-> c] : c \in CashValues}

\* outcomes of client.place_order: a status code, or 0 when it raises
PlaceOrderResponses == {HttpCreated, 400, 0}

\* ------------------------------------------------------------------- state
VARIABLES
    config,          \* self.config (allocation, dry_run, min_investment_amount)
    client,          \* self.client: "None" or "client"
    openOrders,      \* brokerage side: the account has working orders
    pc,              \* position in run / in the direct call
    available_funds, \* run: available_funds
    prices,          \* run: prices
    orders,          \* run: orders (result of calculate_allocation)
    idx,             \* place_limit_orders: loop position
    all_successful,  \* place_limit_orders: all_successful
    ret,             \* return value of place_limit_orders: "none","True","False"
    outcome,         \* per processed order: what happened to it
    submitted,       \* orders passed to client.place_order
    log,             \* brokerage calls and allocation, in order
    upstreamFailed,  \* a cash or price retrieval of the run failed
    result           \* what run reported, or how a direct call ended

vars == <<config, client, openOrders, pc, available_funds, prices, orders,
          idx, all_successful, ret, outcome, submitted, log,
          upstreamFailed, result>>

\* ----------------------------------------------------------------- helpers
\* dict.get(key, default) on an optional config entry ({} when absent)
ConfigGet(entry, default) ==
    IF entry = {} THEN default ELSE CHOOSE v \in entry : TRUE

\* int(n / d) for d > 0: truncation toward zero
IntTrunc(n, d) ==
    IF n >= 0 THEN n \div d ELSE -((-n) \div d)

RECURSIVE SumAmounts(_)
SumAmounts(os) ==
    IF os = <<>> THEN 0 ELSE Head(os).amount + SumAmounts(Tail(os))

Count(seq, x) == Cardinality({i \in 1..Len(seq) : seq[i] = x})

\* ------------------------------------------------ AutoInvestor's methods
\* the authentication test without effect (the 'if not self.client' block
\* left out)
UnauthenticatedNever(c) == FALSE

\* 'not self.client': the test opening get_account_balance,
\* get_current_prices and place_limit_orders
Unauthenticated(c) == c = "None"

\* get_account_balance, after the authentication check: the cash balance
\* of the response, 0 when the field is absent, 0.0 on any exception
GetAccountBalance(resp) ==
    IF resp.raises THEN 0
    ELSE IF resp.hasCash THEN resp.cashBalance
    ELSE 0

\* price of one quote: the last price, else the bid/ask midpoint, else 0.0
\* (the bid and ask values used have an even sum)
QuotePrice(quote_data) ==
    IF quote_data.lastPrice # 0 THEN quote_data.lastPrice
    ELSE IF quote_data.bidPrice # 0 /\ quote_data.askPrice # 0
         THEN (quote_data.bidPrice + quote_data.askPrice) \div 2
         ELSE 0

\* the try block of get_current_prices raises: get_quotes raises, or a
\* requested symbol is not in the response
QuotesFail(symbols, resp) ==
    resp.raises \/ \E i \in 1..Len(symbols) : symbols[i] \notin DOMAIN resp.quotes

\* get_current_prices, after the authentication check
GetCurrentPrices(symbols, resp) ==
    IF QuotesFail(symbols, resp) THEN EmptyDict
    ELSE [s \in Range(symbols) |-> QuotePrice(resp.quotes[s])]

\* the skip test of calculate_allocation's loop, negated
HasValidPrice(symbol, p) == symbol \in DOMAIN p /\ p[symbol] > 0

\* target_amount = available_funds * (target_pct / 100), times 100
TargetAmountScaled(funds, target_pct) == funds * target_pct

\* shares = int(target_amount / price), in exact arithmetic
Shares(funds, target_pct, price) ==
    IntTrunc(TargetAmountScaled(funds, target_pct), PercentBase * price)

\* AllocationLoop leaving the loop at the first security without a valid
\* price (break in place of continue)
RECURSIVE AllocationLoopStop(_, _, _, _)
AllocationLoopStop(keys, w, funds, p) ==
    IF keys = <<>> THEN <<>>
    ELSE LET symbol == Head(keys)
             rest == AllocationLoopStop(Tail(keys), w, funds, p)
         IN IF ~HasValidPrice(symbol, p) THEN <<>>
            ELSE LET shares == Shares(funds, w[symbol], p[symbol])
                 IN IF shares > 0
                    THEN <<[symbol |-> symbol, shares |-> shares,
                            amount |-> shares * p[symbol]]>> \o rest
                    ELSE rest

\* AllocationLoop keeping the securities that get no share (shares >= 0 in
\* place of shares > 0)
RECURSIVE AllocationLoopKeepZero(_, _, _, _)
AllocationLoopKeepZero(keys, w, funds, p) ==
    IF keys = <<>> THEN <<>>
    ELSE LET symbol == Head(keys)
             rest == AllocationLoopKeepZero(Tail(keys), w, funds, p)
         IN IF ~HasValidPrice(symbol, p) THEN rest
            ELSE LET shares == Shares(funds, w[symbol], p[symbol])
                 IN IF shares >= 0
                    THEN <<[symbol |-> symbol, shares |-> shares,
                            amount |-> shares * p[symbol]]>> \o rest
                    ELSE rest

\* AllocationLoop prepending each order to the plan (insert(0, ..) in place
\* of append)
RECURSIVE AllocationLoopReversed(_, _, _, _)
AllocationLoopReversed(keys, w, funds, p) ==
    IF keys = <<>> THEN <<>>
    ELSE LET symbol == Head(keys)
             rest == AllocationLoopReversed(Tail(keys), w, funds, p)
         IN IF ~HasValidPrice(symbol, p) THEN rest
            ELSE LET shares == Shares(funds, w[symbol], p[symbol])
                 IN IF shares > 0
                    THEN rest \o <<[symbol |-> symbol, shares |-> shares,
                                    amount |-> shares * p[symbol]]>>
                    ELSE rest

\* the loop of calculate_allocation over allocations.items()
RECURSIVE AllocationLoop(_, _, _, _)
AllocationLoop(keys, w, funds, p) ==
    IF keys = <<>> THEN <<>>
    ELSE LET symbol == Head(keys)
             rest == AllocationLoop(Tail(keys), w, funds, p)
         IN IF ~HasValidPrice(symbol, p) THEN rest
            ELSE LET shares == Shares(funds, w[symbol], p[symbol])
                 IN IF shares > 0
                    THEN <<[symbol |-> symbol, shares |-> shares,
                            amount |-> shares * p[symbol]]>> \o rest
                    ELSE rest

\* calculate_allocation skipping the run at the threshold too (<= in place
\* of <)
CalculateAllocationAtMost(cfg, funds, p) ==
    IF funds <= ConfigGet(cfg.min_investment, DefaultMinInvestment) THEN <<>>
    ELSE AllocationLoop(cfg.allocation.keys, cfg.allocation.w, funds, p)

\* calculate_allocation looping over the price table, a security without a
\* configured weight getting the full percentage
CalculateAllocationOverPrices(cfg, funds, p) ==
    IF funds < ConfigGet(cfg.min_investment, DefaultMinInvestment) THEN <<>>
    ELSE AllocationLoop(
             SelectSeq(<<"VTI", "VXUS">>, LAMBDA s : s \in DOMAIN p),
             [s \in DOMAIN p |->
                 IF s \in DOMAIN cfg.allocation.w THEN cfg.allocation.w[s]
                 ELSE PercentBase],
             funds, p)

\* calculate_allocation(available_funds, prices) under configuration cfg
CalculateAllocation(cfg, funds, p) ==
    IF funds < ConfigGet(cfg.min_investment, DefaultMinInvestment) THEN <<>>
    ELSE AllocationLoop(cfg.allocation.keys, cfg.allocation.w, funds, p)

\* ProcessOrder without the except clause: an exception of place_order
\* leaves the loop
ProcessOrderUncaught(o, dry_run, cur, presp) ==
    IF o.symbol \notin DOMAIN cur
    THEN [outcome |-> "noprice", ok |-> FALSE, escaped |-> FALSE, sent |-> <<>>]
    ELSE IF dry_run
    THEN [outcome |-> "dry", ok |-> TRUE, escaped |-> FALSE, sent |-> <<>>]
    ELSE LET order == [symbol |-> o.symbol, quantity |-> o.shares,
                       price |-> cur[o.symbol]]
         IN IF presp = 0
            THEN [outcome |-> "raised", ok |-> FALSE, escaped |-> TRUE,
                  sent |-> <<order>>]
            ELSE IF presp = HttpCreated
            THEN [outcome |-> "placed", ok |-> TRUE, escaped |-> FALSE,
                  sent |-> <<order>>]
            ELSE [outcome |-> "rejected", ok |-> FALSE, escaped |-> FALSE,
                  sent |-> <<order>>]

\* ProcessOrder placing the order whatever dry_run is
ProcessOrderIgnoreDry(o, dry_run, cur, presp) ==
    IF o.symbol \notin DOMAIN cur
    THEN [outcome |-> "noprice", ok |-> FALSE, escaped |-> FALSE, sent |-> <<>>]
    ELSE LET order == [symbol |-> o.symbol, quantity |-> o.shares,
                       price |-> cur[o.symbol]]
         IN IF presp = 0
            THEN [outcome |-> "raised", ok |-> FALSE, escaped |-> FALSE,
                  sent |-> <<order>>]
            ELSE IF presp = HttpCreated
            THEN [outcome |-> "placed", ok |-> TRUE, escaped |-> FALSE,
                  sent |-> <<order>>]
            ELSE [outcome |-> "rejected", ok |-> FALSE, escaped |-> FALSE,
                  sent |-> <<order>>]

\* ProcessOrder not recording a rejected order as a failure
ProcessOrderRejectOk(o, dry_run, cur, presp) ==
    IF o.symbol \notin DOMAIN cur
    THEN [outcome |-> "noprice", ok |-> FALSE, escaped |-> FALSE, sent |-> <<>>]
    ELSE IF dry_run
    THEN [outcome |-> "dry", ok |-> TRUE, escaped |-> FALSE, sent |-> <<>>]
    ELSE LET order == [symbol |-> o.symbol, quantity |-> o.shares,
                       price |-> cur[o.symbol]]
         IN IF presp = 0
            THEN [outcome |-> "raised", ok |-> FALSE, escaped |-> FALSE,
                  sent |-> <<order>>]
            ELSE IF presp = HttpCreated
            THEN [outcome |-> "placed", ok |-> TRUE, escaped |-> FALSE,
                  sent |-> <<order>>]
            ELSE [outcome |-> "rejected", ok |-> TRUE, escaped |-> FALSE,
                  sent |-> <<order>>]

\* one iteration of the loop of place_limit_orders for order o: cur is the
\* result of get_current_prices([symbol]), presp the outcome of place_order.
\* sent: the order passed to place_order, if any; ok: all_successful is
\* left alone; escaped: an exception left the loop body uncaught.
ProcessOrder(o, dry_run, cur, presp) ==
    IF o.symbol \notin DOMAIN cur
    THEN [outcome |-> "noprice", ok |-> FALSE, escaped |-> FALSE, sent |-> <<>>]
    ELSE IF dry_run
    THEN [outcome |-> "dry", ok |-> TRUE, escaped |-> FALSE, sent |-> <<>>]
    ELSE LET order == [symbol |-> o.symbol, quantity |-> o.shares,
                       price |-> cur[o.symbol]]
         IN IF presp = 0
            THEN [outcome |-> "raised", ok |-> FALSE, escaped |-> FALSE,
                  sent |-> <<order>>]
            ELSE IF presp = HttpCreated
            THEN [outcome |-> "placed", ok |-> TRUE, escaped |-> FALSE,
                  sent |-> <<order>>]
            ELSE [outcome |-> "rejected", ok |-> FALSE, escaped |-> FALSE,
                  sent |-> <<order>>]

BoolStr(b) == IF b THEN "True" ELSE "False"

\* ------------------------------------------------------------ construction
Configs ==
    {[allocation |-> a, dry_run |-> d, min_investment |-> m] :
        a \in AllocationConfigs,
        d \in {{}, {TRUE}, {FALSE}},
        m \in {{}} \cup {{v} : v \in MinInvestmentValues}}

InitObject ==
    /\ config \in Configs
    /\ client = "None"
    /\ available_funds = 0
    /\ prices = EmptyDict
    /\ orders = <<>>
    /\ idx = 0
    /\ all_successful = TRUE
    /\ ret = "none"
    /\ outcome = <<>>
    /\ submitted = <<>>
    /\ log = <<>>
    /\ upstreamFailed = FALSE
    /\ result = "none"

Init ==
    /\ InitObject
    /\ openOrders \in BOOLEAN
    /\ pc = "start"

\* ----------------------------------------------------------------- run()
\* an exception reaches run's handler, which logs it and re-raises
Raise ==
    /\ result' = "raised"
    /\ pc' = "done"

\* authenticate(): easy_client succeeds, or the process exits
Authenticate ==
    /\ pc = "start"
    /\ \E ok \in BOOLEAN :
         IF ok
         THEN /\ client' = "client"
              /\ pc' = "balance"
              /\ result' = result
         ELSE /\ client' = client
              /\ pc' = "done"
              /\ result' = "exit"
    /\ UNCHANGED <<config, openOrders, available_funds, prices, orders, idx,
                   all_successful, ret, outcome, submitted, log, upstreamFailed>>

\* available_funds = self.get_account_balance(), and the no-funds return
GetBalance ==
    /\ pc = "balance"
    /\ IF Unauthenticated(client)
       THEN /\ Raise
            /\ UNCHANGED <<available_funds, log, upstreamFailed>>
       ELSE \E resp \in AccountResponses :
              /\ available_funds' = GetAccountBalance(resp)
              /\ log' = Append(log, "get_account")
              /\ upstreamFailed' = (upstreamFailed \/ resp.raises)
              /\ IF available_funds' <= 0
                 THEN /\ result' = "no_funds"
                      /\ pc' = "done"
                 ELSE /\ result' = result
                      /\ pc' = "prices"
    /\ UNCHANGED <<config, client, openOrders, prices, orders, idx,
                   all_successful, ret, outcome, submitted>>

\* prices = self.get_current_prices(list(allocation.keys()))
GetPrices ==
    /\ pc = "prices"
    /\ IF Unauthenticated(client)
       THEN /\ Raise
            /\ UNCHANGED <<prices, log, upstreamFailed>>
       ELSE \E resp \in QuoteResponses(Range(config.allocation.keys)) :
              /\ prices' = GetCurrentPrices(config.allocation.keys, resp)
              /\ log' = Append(log, "get_quotes")
              /\ upstreamFailed' =
                   (upstreamFailed \/ QuotesFail(config.allocation.keys, resp))
              /\ result' = result
              /\ pc' = "alloc"
    /\ UNCHANGED <<config, client, openOrders, available_funds, orders, idx,
                   all_successful, ret, outcome, submitted>>

\* orders = self.calculate_allocation(available_funds, prices)
Allocate ==
    /\ pc = "alloc"
    /\ orders' = CalculateAllocation(config, available_funds, prices)
    /\ log' = Append(log, "allocate")
    /\ pc' = "place"
    /\ UNCHANGED <<config, client, openOrders, available_funds, prices, idx,
                   all_successful, ret, outcome, submitted, upstreamFailed,
                   result>>

\* place_limit_orders(orders) up to its loop
PlaceBegin ==
    /\ pc = "place"
    /\ IF Unauthenticated(client)
       THEN /\ Raise
            /\ UNCHANGED <<idx, all_successful, ret>>
       ELSE IF orders = <<>>
       THEN /\ ret' = "True"
            /\ pc' = "report"
            /\ UNCHANGED <<idx, all_successful, result>>
       ELSE /\ idx' = 1
            /\ all_successful' = TRUE
            /\ pc' = "loop"
            /\ UNCHANGED <<ret, result>>
    /\ UNCHANGED <<config, client, openOrders, available_funds, prices, orders,
                   outcome, submitted, log, upstreamFailed>>

\* one iteration of the loop of place_limit_orders; after the last one the
\* method returns all_successful
PlaceOrder ==
    /\ pc = "loop"
    /\ LET o == orders[idx]
           dry_run == ConfigGet(config.dry_run, TRUE)
       IN \E qresp \in QuoteResponses({o.symbol}), presp \in PlaceOrderResponses :
            LET cur == GetCurrentPrices(<<o.symbol>>, qresp)
                r == ProcessOrder(o, dry_run, cur, presp)
            IN /\ log' = log \o <<"get_quotes">> \o
                           [i \in 1..Len(r.sent) |-> "place_order"]
               /\ submitted' = submitted \o r.sent
               /\ outcome' = Append(outcome, r.outcome)
               /\ all_successful' = (all_successful /\ r.ok)
               /\ IF r.escaped
                  THEN /\ Raise
                       /\ UNCHANGED <<idx, ret>>
                  ELSE IF idx = Len(orders)
                  THEN /\ ret' = BoolStr(all_successful')
                       /\ pc' = "report"
                       /\ UNCHANGED <<idx, result>>
                  ELSE /\ idx' = idx + 1
                       /\ UNCHANGED <<pc, ret, result>>
    /\ UNCHANGED <<config, client, openOrders, available_funds, prices, orders,
                   upstreamFailed>>

\* the success / failure report at the end of run
Report ==
    /\ pc = "report"
    /\ result' = IF ret = "True" THEN "success" ELSE "some_failed"
    /\ pc' = "done"
    /\ UNCHANGED <<config, client, openOrders, available_funds, prices, orders,
                   idx, all_successful, ret, outcome, submitted, log,
                   upstreamFailed>>

Next ==
    \/ Authenticate
    \/ GetBalance
    \/ GetPrices
    \/ Allocate
    \/ PlaceBegin
    \/ PlaceOrder
    \/ Report

Spec == Init /\ [][Next]_vars

\* ------------------------------------- calculate_allocation called directly
PriceValues == {-100, 0, 50, 100}

InitAlloc ==
    /\ InitObject
    /\ openOrders = FALSE
    /\ pc = "call"

CallCalculateAllocation ==
    /\ pc = "call"
    /\ \E funds \in CashValues, p \in Dicts(Symbols, PriceValues) :
         /\ available_funds' = funds
         /\ prices' = p
         /\ orders' = CalculateAllocation(config, funds, p)
    /\ log' = Append(log, "allocate")
    /\ pc' = "returned"
    /\ UNCHANGED <<config, client, openOrders, idx, all_successful, ret,
                   outcome, submitted, upstreamFailed, result>>

NextAlloc == CallCalculateAllocation

SpecAlloc == InitAlloc /\ [][NextAlloc]_vars

\* --------------------------------------------- the methods called directly
\* configurations of the directly called object: the threshold and the
\* weights play no part in the three brokerage methods
CallConfigs ==
    {c \in Configs :
        /\ c.min_investment = {}
        /\ \A s \in DOMAIN c.allocation.w : c.allocation.w[s] = PercentBase}

\* plans handed to place_limit_orders
DirectOrders ==
    {<<>>, <<[symbol |-> "VTI", shares |-> 1, amount |-> 100]>>}

InitCalls ==
    /\ InitObject
    /\ config \in CallConfigs
    /\ openOrders = FALSE
    /\ pc = "idle"

\* authenticate() called by itself
CallAuthenticate ==
    /\ pc = "idle"
    /\ \E ok \in BOOLEAN :
         IF ok
         THEN /\ client' = "client"
              /\ result' = "returned"
              /\ pc' = pc
         ELSE /\ client' = client
              /\ result' = "exit"
              /\ pc' = "done"
    /\ UNCHANGED <<config, openOrders, available_funds, prices, orders, idx,
                   all_successful, ret, outcome, submitted, log, upstreamFailed>>

\* get_account_balance() called by itself
CallGetAccountBalance ==
    /\ pc = "idle"
    /\ Len(log) < MaxCalls
    /\ IF Unauthenticated(client)
       THEN /\ result' = "RuntimeError"
            /\ UNCHANGED <<available_funds, log, upstreamFailed>>
       ELSE \E resp \in AccountResponses :
              /\ available_funds' = GetAccountBalance(resp)
              /\ log' = Append(log, "get_account")
              /\ upstreamFailed' = (upstreamFailed \/ resp.raises)
              /\ result' = "returned"
    /\ UNCHANGED <<config, client, openOrders, pc, prices, orders, idx,
                   all_successful, ret, outcome, submitted>>

\* get_current_prices(symbols) called by itself, for the configured symbols
CallGetCurrentPrices ==
    /\ pc = "idle"
    /\ Len(log) < MaxCalls
    /\ IF Unauthenticated(client)
       THEN /\ result' = "RuntimeError"
            /\ UNCHANGED <<prices, log, upstreamFailed>>
       ELSE \E resp \in QuoteResponses(Range(config.allocation.keys)) :
              /\ prices' = GetCurrentPrices(config.allocation.keys, resp)
              /\ log' = Append(log, "get_quotes")
              /\ upstreamFailed' =
                   (upstreamFailed \/ QuotesFail(config.allocation.keys, resp))
              /\ result' = "returned"
    /\ UNCHANGED <<config, client, openOrders, pc, available_funds, orders,
                   idx, all_successful, ret, outcome, submitted>>

\* place_limit_orders(orders) called by itself, up to its loop
CallPlaceLimitOrders ==
    /\ pc = "idle"
    /\ Len(log) < MaxCalls
    /\ \E os \in DirectOrders :
         IF Unauthenticated(client)
         THEN /\ result' = "RuntimeError"
              /\ UNCHANGED <<orders, idx, all_successful, ret, pc>>
         ELSE IF os = <<>>
         THEN /\ orders' = os
              /\ ret' = "True"
              /\ result' = "returned"
              /\ UNCHANGED <<idx, all_successful, pc>>
         ELSE /\ orders' = os
              /\ idx' = 1
              /\ all_successful' = TRUE
              /\ pc' = "loop"
              /\ UNCHANGED <<ret, result>>
    /\ UNCHANGED <<config, client, openOrders, available_funds, prices,
                   outcome, submitted, log, upstreamFailed>>

\* place_limit_orders hands its return value to the caller
ReturnToCaller ==
    /\ pc = "report"
    /\ result' = "returned"
    /\ pc' = "idle"
    /\ UNCHANGED <<config, client, openOrders, available_funds, prices, orders,
                   idx, all_successful, ret, outcome, submitted, log,
                   upstreamFailed>>

NextCalls ==
    \/ CallAuthenticate
    \/ CallGetAccountBalance
    \/ CallGetCurrentPrices
    \/ CallPlaceLimitOrders
    \/ PlaceOrder
    \/ ReturnToCaller

SpecCalls == InitCalls /\ [][NextCalls]_vars


\* ------------------------------------------------------------------ claims
Keys == config.allocation.keys
Weight(s) == config.allocation.w[s]
MinInvestment == ConfigGet(config.min_investment, DefaultMinInvestment)
DryRun == ConfigGet(config.dry_run, TRUE)
Allocated == Count(log, "allocate") > 0
Returned == ret # "none"
OrderFor(s) == \E i \in 1..Len(orders) : orders[i].symbol = s
SubmittedFor(s) == \E i \in 1..Len(submitted) : submitted[i].symbol = s
FailureOutcomes == {"rejected", "raised", "noprice"}

\* C1: once the allocation is computed for cash >= 0 and positive weights,
\* the sum over the plan of shares x price is at most the cash.
C1_NoOverspend ==
    (Allocated /\ available_funds >= 0 /\ \A s \in Range(Keys) : Weight(s) > 0)
        => SumAmounts(orders) <= available_funds

\* C2: a security whose price in the price table is <= 0 has no order in the
\* plan and no order submitted; when every price is <= 0 nothing is
\* submitted; and a security with a valid price that its target amount
\* (cash x weight / 100, cash at least the minimum investment) can pay for
\* is in the plan with at least one share, whatever the other prices are.
C2_NonPositivePriceNeverBought ==
    Allocated =>
        /\ \A s \in DOMAIN prices :
             prices[s] <= 0 => ~OrderFor(s) /\ ~SubmittedFor(s)
        /\ (\A s \in DOMAIN prices : prices[s] <= 0)
             => orders = <<>> /\ submitted = <<>>
        /\ \A s \in Range(Keys) :
             (/\ s \in DOMAIN prices
              /\ prices[s] > 0
              /\ available_funds >= MinInvestment
              /\ PercentBase * prices[s] <= available_funds * Weight(s))
             => \E i \in 1..Len(orders) :
                  orders[i].symbol = s /\ orders[i].shares >= 1

\* C2 witness: a weighted security is priced at zero or below, another one
\* is bought and its order has been sent to the brokerage.
C2_Witness ==
    /\ Allocated
    /\ \E s \in DOMAIN prices : prices[s] <= 0 /\ Weight(s) > 0
    /\ \E t \in DOMAIN prices : prices[t] > 0 /\ OrderFor(t) /\ SubmittedFor(t)

\* C3: when a key of the target weights has no entry in the price table,
\* calculate_allocation does not return (it fails with a lookup error).
C3_MissingPriceFails ==
    (\E s \in Range(Keys) : s \notin DOMAIN prices) => pc # "returned"

\* C4: when the target weights are non-empty and all zero,
\* calculate_allocation does not return (it fails with a division error).
C4_ZeroWeightSumFails ==
    (Keys # <<>> /\ \A s \in Range(Keys) : Weight(s) = 0) => pc # "returned"

\* C5: in a run the allocation is computed at most once; when it is
\* computed, the cash and the prices have each been retrieved exactly once,
\* both before it, and no retrieval follows it.
C5_SingleSnapshot ==
    /\ Count(log, "allocate") <= 1
    /\ Allocated =>
         /\ Count(log, "get_account") = 1
         /\ Count(log, "get_quotes") = 1
         /\ \A i, j \in 1..Len(log) :
              (log[i] = "allocate" /\ i < j)
                  => log[j] \notin {"get_account", "get_quotes"}

\* C6: when the cash or the price retrieval of the run failed, the
\* allocation is not computed, nothing is submitted, and the run ends by
\* raising, never by reporting.
C6_UpstreamErrorFatal ==
    upstreamFailed =>
        /\ ~Allocated
        /\ submitted = <<>>
        /\ result # "success"
        /\ pc = "done" => result = "raised"

\* C7: whatever happens to an order (placed, rejected, place_order raising,
\* no price), the loop goes on: no exception leaves place_limit_orders,
\* inside the loop exactly the orders before the current one have been
\* processed, and when the method has returned every order of the plan has
\* been processed exactly once, in plan order, place_order having been
\* called (outside dry run) once for each order that got a limit price.
C7_PerOrderIndependence ==
    /\ result # "raised"
    /\ pc = "loop" => Len(outcome) = idx - 1 /\ idx <= Len(orders)
    /\ Returned =>
         /\ Len(outcome) = Len(orders)
         /\ ~DryRun =>
              LET priced == SelectSeq([i \in 1..Len(orders) |->
                                         [o |-> orders[i], r |-> outcome[i]]],
                                      LAMBDA e : e.r # "noprice")
              IN /\ Len(submitted) = Len(priced)
                 /\ \A i \in 1..Len(priced) :
                      /\ submitted[i].symbol = priced[i].o.symbol
                      /\ submitted[i].quantity = priced[i].o.shares

\* C7 witness: the first order of a plan of two was rejected or raised, and
\* the second one was placed.
C7_Witness ==
    /\ Returned
    /\ Len(orders) = 2
    /\ outcome[1] \in {"rejected", "raised"}
    /\ outcome[2] = "placed"

\* C8: with dry_run in force (set, or absent from the configuration, the
\* default being True) place_order is never called.
C8_DryRunPlacesNothing ==
    DryRun => submitted = <<>> /\ Count(log, "place_order") = 0

\* C8 witness: a dry run whose non-empty plan has been processed.
C8_Witness ==
    /\ config.dry_run = {TRUE}
    /\ Returned
    /\ orders # <<>>
    /\ \A i \in 1..Len(outcome) : outcome[i] = "dry"

\* C9: place_limit_orders returns False exactly when some order was
\* rejected, raised or could not be priced, True otherwise (an empty plan
\* included), and run reports success exactly when it returned True.
C9_FailureIffSomeOrderFailed ==
    /\ Returned =>
         /\ ret = "False" <=>
              \E i \in 1..Len(outcome) : outcome[i] \in FailureOutcomes
         /\ ret = "True" <=>
              \A i \in 1..Len(outcome) : outcome[i] \notin FailureOutcomes
         /\ orders = <<>> => ret = "True"
    /\ (pc = "done" /\ Returned) =>
         /\ result \in {"success", "some_failed"}
         /\ result = "success" <=> ret = "True"
    /\ result \in {"success", "some_failed"} => Returned

\* C9 witness: a run that ended with one order placed and one rejected.
C9_Witness ==
    /\ pc = "done"
    /\ ret = "False"
    /\ result = "some_failed"
    /\ \E i \in 1..Len(outcome) : outcome[i] = "placed"
    /\ \E i \in 1..Len(outcome) : outcome[i] = "rejected"

\* C10: when the account has open orders at the start of the run, the
\* allocation is never computed and no order is submitted.
C10_OpenOrdersAbort ==
    openOrders => ~Allocated /\ submitted = <<>>

\* the security's price is valid and its target amount (cash x weight / 100)
\* pays for at least one share
TargetCoversShare(s) ==
    /\ s \in DOMAIN prices
    /\ prices[s] > 0
    /\ PercentBase * prices[s] <= available_funds * Weight(s)

\* C11: when the cash is strictly below min_investment_amount (default 100)
\* the plan is empty and nothing is submitted; at cash equal to the
\* threshold the allocation is carried out: a security whose target amount
\* pays for a share is in the plan.
C11_MinInvestmentThreshold ==
    Allocated =>
        /\ available_funds < MinInvestment => orders = <<>> /\ submitted = <<>>
        /\ (available_funds = MinInvestment
              /\ \E s \in Range(Keys) : TargetCoversShare(s))
             => orders # <<>>

\* C11 witness: a finished run whose cash was below the threshold although a
\* security's target amount would have paid for a share.
C11_Witness ==
    /\ Allocated
    /\ pc = "done"
    /\ available_funds < MinInvestment
    /\ \E s \in Range(Keys) : TargetCoversShare(s)

\* C12: calculate_allocation called with cash 0 returns normally with no
\* security getting a share (the plan is empty), and nothing is submitted.
C12_ZeroCash ==
    (pc = "returned" /\ available_funds = 0)
        => orders = <<>> /\ submitted = <<>>

\* C12 witness: a call with cash 0 that passed the threshold test
\* (min_investment_amount 0) with a weighted, validly priced security.
C12_Witness ==
    /\ pc = "returned"
    /\ available_funds = 0
    /\ MinInvestment = 0
    /\ \E s \in Range(Keys) : Weight(s) > 0 /\ HasValidPrice(s, prices)

\* C13: when all weights are positive and every security's price is greater
\* than the cash, calculate_allocation returns an empty plan.
C13_UnaffordableUniverse ==
    (/\ pc = "returned"
     /\ available_funds >= 0
     /\ \A s \in Range(Keys) :
          Weight(s) > 0 /\ s \in DOMAIN prices /\ prices[s] > available_funds)
        => orders = <<>>

\* C14: the result of calculate_allocation has an entry for every key of the
\* target weights, with a share count >= 0.
C14_EntryForEveryKey ==
    pc = "returned" =>
        \A s \in Range(Keys) :
            \E i \in 1..Len(orders) : orders[i].symbol = s /\ orders[i].shares >= 0

\* position of a key in the iteration order of the target weights
KeyPos(s) == CHOOSE k \in 1..Len(Keys) : Keys[k] = s

\* C15: the plan holds exactly the securities that get at least one share,
\* each once, in the iteration order of the target weights, each with
\* amount = shares x price of the price table; no entry of the plan and no
\* submitted order has quantity 0.
C15_OrderPlan ==
    Allocated =>
        /\ \A i \in 1..Len(orders) :
             /\ orders[i].shares > 0
             /\ orders[i].symbol \in Range(Keys) \cap DOMAIN prices
             /\ orders[i].amount = orders[i].shares * prices[orders[i].symbol]
        /\ \A i, j \in 1..Len(orders) :
             i < j => KeyPos(orders[i].symbol) < KeyPos(orders[j].symbol)
        /\ \A s \in Range(Keys) :
             OrderFor(s) <=>
                 (available_funds >= MinInvestment /\ TargetCoversShare(s))
        /\ \A i \in 1..Len(submitted) : submitted[i].quantity > 0

\* C15 witness: a plan of two orders for weights iterated as VXUS, VTI, both
\* sent to the brokerage.
C15_Witness ==
    /\ Allocated
    /\ Keys = <<"VXUS", "VTI">>
    /\ Len(orders) = 2
    /\ Len(submitted) = 2

\* C16: with an empty target-weights mapping calculate_allocation returns
\* the empty plan.
C16_EmptyWeights ==
    (pc = "returned" /\ Keys = <<>>) => orders = <<>>

\* C16 witness: a call with no target weights, cash at or above the
\* threshold and a price table holding an affordable security.
C16_Witness ==
    /\ pc = "returned"
    /\ Keys = <<>>
    /\ available_funds >= MinInvestment
    /\ \E s \in DOMAIN prices : prices[s] > 0 /\ prices[s] <= available_funds

\* ---------------------------------- the allocation the specification states
RECURSIVE SumWeights(_)
SumWeights(keys) ==
    IF keys = <<>> THEN 0 ELSE Weight(Head(keys)) + SumWeights(Tail(keys))

Abs(x) == IF x >= 0 THEN x ELSE -x

\* share count the computed plan gives a security (0 when it has no entry)
PlanShares(s) ==
    IF OrderFor(s)
    THEN (CHOOSE o \in Range(orders) : o.symbol = s).shares
    ELSE 0

\* |held - target| for target = cash * weight / sum(weights), times
\* sum(weights)
Deviation(s, held) ==
    Abs(held * SumWeights(Keys) - available_funds * Weight(s))

\* improvement of one more share of the security at position k
Improvement(k, sh) ==
    Deviation(Keys[k], sh[Keys[k]] * prices[Keys[k]])
        - Deviation(Keys[k], (sh[Keys[k]] + 1) * prices[Keys[k]])

\* the greedy procedure: one share at a time of the affordable security
\* with the largest improvement, the first in key order on ties, while that
\* improvement is strictly positive
RECURSIVE Greedy(_, _)
Greedy(sh, remaining) ==
    LET cands == {k \in 1..Len(Keys) :
                     prices[Keys[k]] > 0 /\ prices[Keys[k]] <= remaining}
    IN IF cands = {} THEN sh
       ELSE LET best == CHOOSE k \in cands :
                            \A j \in cands :
                                \/ Improvement(k, sh) > Improvement(j, sh)
                                \/ Improvement(k, sh) = Improvement(j, sh) /\ k <= j
            IN IF Improvement(best, sh) > 0
               THEN Greedy([sh EXCEPT ![Keys[best]] = @ + 1],
                           remaining - prices[Keys[best]])
               ELSE sh

GreedyShares == Greedy([s \in Range(Keys) |-> 0], available_funds)

\* the inputs the specification calls valid: cash >= 0, positive weights and
\* a price for every security of the target weights
ValidInputs ==
    /\ available_funds >= 0
    /\ \A s \in Range(Keys) : Weight(s) > 0 /\ s \in DOMAIN prices

\* C17: on valid inputs the share counts calculate_allocation returns are
\* those of the greedy procedure.
C17_GreedyAllocation ==
    (pc = "returned" /\ ValidInputs)
        => \A s \in Range(Keys) : PlanShares(s) = GreedyShares[s]

\* C18: on valid inputs with every price valid and the cash at or above the
\* threshold, each target amount the allocation uses is
\* cash * weight / sum(weights), and the targets add up to the cash.
C18_TargetNormalised ==
    (/\ pc = "returned"
     /\ ValidInputs
     /\ Keys # <<>>
     /\ available_funds >= MinInvestment
     /\ \A s \in Range(Keys) : HasValidPrice(s, prices))
        => /\ \A s \in Range(Keys) :
                TargetAmountScaled(available_funds, Weight(s)) * SumWeights(Keys)
                    = available_funds * Weight(s) * PercentBase
           /\ LET RECURSIVE SumTargets(_)
                  SumTargets(keys) ==
                      IF keys = <<>> THEN 0
                      ELSE TargetAmountScaled(available_funds, Weight(Head(keys)))
                               + SumTargets(Tail(keys))
              IN SumTargets(Keys) = available_funds * PercentBase

\* C19: on valid inputs every share of the plan strictly reduced its
\* security's deviation from the target cash * weight / sum(weights), and
\* the held value exceeds that target by less than half the price.
C19_StrictImprovement ==
    (pc = "returned" /\ ValidInputs) =>
        \A s \in Range(Keys) :
            /\ \A k \in 1..PlanShares(s) :
                 Deviation(s, k * prices[s]) < Deviation(s, (k - 1) * prices[s])
            /\ PlanShares(s) > 0 =>
                 2 * (PlanShares(s) * prices[s] * SumWeights(Keys)
                        - available_funds * Weight(s))
                     < prices[s] * SumWeights(Keys)

\* C20: on valid inputs the number of purchases of the allocation loop is at
\* most cash / min(positive price).
C20_PurchaseBound ==
    (pc = "returned" /\ ValidInputs) =>
        \A s \in Range(Keys) :
            (prices[s] > 0 /\ \A t \in Range(Keys) :
                                 prices[t] > 0 => prices[s] <= prices[t])
                => Len(orders) * prices[s] <= available_funds

\* C21: every order passed to place_order carries a strictly positive limit
\* price.
C21_PositiveLimitPrice ==
    \A i \in 1..Len(submitted) : submitted[i].price > 0

BrokerageCalls == {"get_account", "get_quotes", "place_order"}

\* C22: while the client is unauthenticated no brokerage call has been made,
\* and a call of get_account_balance, get_current_prices or
\* place_limit_orders on the unauthenticated object (a step that leaves it
\* unauthenticated and is not the exit of authenticate) ends in a
\* RuntimeError without a brokerage call or a submitted order.
C22_NoCallBeforeAuthentication ==
    /\ [](client = "None" => \A i \in 1..Len(log) : log[i] \notin BrokerageCalls)
    /\ [][(client = "None" /\ client' = "None" /\ result' # "exit")
            => (result' = "RuntimeError" /\ log' = log /\ submitted' = submitted
                  /\ pc' = pc)]_vars

\* C22 witness: a method was called on the unauthenticated object and raised
\* RuntimeError.
C22_Witness ==
    /\ client = "None"
    /\ result = "RuntimeError"
    /\ log = <<>>

====
